---- MODULE Spec2Model ----
(***************************************************************************)
(* Model of the news scraper backend (src/unnamed/part_000): startServer   *)
(* and initDB, the GET /scrape handler (cache gate, fetch, extraction,     *)
(* deduplication, parallel persistence, fallback), saveToDB, saveToFile    *)
(* and the GET /articles handler.                                          *)
(*                                                                         *)
(* Granularity: the process is a single JavaScript thread, so everything   *)
(* between two completions of asynchronous I/O runs atomically.  One       *)
(* action is one I/O completion together with the synchronous code and     *)
(* the promise continuations that run after it, up to the next I/O         *)
(* request.                                                                *)
(*                                                                         *)
(* Time is counted in minutes.  Texts are sequences of one-character       *)
(* strings.  A link is a record [origin, path]: the string origin ++ path, *)
(* with path 0 standing for the empty path and k > 0 for "/k".             *)
(***************************************************************************)
EXTENDS Integers, Sequences, FiniteSets, TLC

\* ------------------------------------------------------------------ bounds
MaxScrapes == 2     \* GET /scrape requests per behaviour
MaxPosts   == 3     \* .feed-post nodes per fetched page
MaxTicks   == 1     \* clock advances per behaviour

\* ------------------------------------------------------- program constants
CacheWindow     == 5      \* INTERVAL '5 minutes'
CacheThreshold  == 10     \* cacheResult.rows.length >= 10
CacheLimit      == 50     \* LIMIT 50 of the cache gate query
FallbackLimit   == 50     \* LIMIT 50 of the fallback query
KeepFiles       == 7      \* slice(0, -7)
DefaultLimit    == 50     \* limit = 50
DefaultOffset   == 0      \* offset = 0
MinutesPerDay   == 1440

SiteOrigin      == "https://g1.globo.com"
DefaultSummary  == <<"S","e","m">>    \* "Sem resumo disponível", abbreviated
DefaultSource   == "G1"
Null            == "null"

\* ------------------------------------------------------------ text helpers
Min(a, b) == IF a <= b THEN a ELSE b
Max(a, b) == IF a >= b THEN a ELSE b

Range(s) == {s[i] : i \in 1..Len(s)}

RECURSIVE TrimStart(_)
TrimStart(s) ==
    IF Len(s) > 0 /\ Head(s) = " " THEN TrimStart(Tail(s)) ELSE s

RECURSIVE TrimEnd(_)
TrimEnd(s) ==
    IF Len(s) > 0 /\ s[Len(s)] = " " THEN TrimEnd(SubSeq(s, 1, Len(s) - 1)) ELSE s

\* String.prototype.trim
Trim(s) == TrimEnd(TrimStart(s))

\* ------------------------------------------------------------------- links
EmptyLink == [origin |-> "", path |-> 0]

\* link.startsWith("http"): every origin of the model begins with "http" and
\* every path with "/".
StartsWithHttp(link) == link.origin # ""

\* if (link && !link.startsWith("http")) link = `https://g1.globo.com${link}`
ResolveLink(link) ==
    IF link # EmptyLink /\ ~StartsWithHttp(link)
    THEN [origin |-> SiteOrigin, path |-> link.path]
    ELSE link

\* --------------------------------------------------------------- extraction
ValidAlways(title, link) == TRUE

\* title && link (line 212), article.link && article.title (line 227): both
\* strings are non-empty.
Valid(title, link) == title # << >> /\ link # EmptyLink

\* One .feed-post node: the text of .feed-post-link, the text of
\* .feed-post-body-resumo and the href of its first <a> ("" when absent).
ExtractPost(el) ==
    LET title   == Trim(el.postLink)
        summary == Trim(el.resumo)
        link    == ResolveLink(el.href)
    IN  IF Valid(title, link)
        THEN << [title   |-> title,
                 summary |-> IF summary # <<>> THEN summary ELSE DefaultSummary,
                 link    |-> link,
                 source  |-> DefaultSource] >>
        ELSE << >>

\* $(".feed-post").each(...): the candidates, in document order.
RECURSIVE ExtractAll(_)
ExtractAll(markup) ==
    IF markup = << >> THEN << >>
    ELSE ExtractPost(Head(markup)) \o ExtractAll(Tail(markup))

\* a.findIndex(t => t.link === v.link)
FindIndex(a, link) ==
    IF \E k \in 1..Len(a) : a[k].link = link
    THEN CHOOSE k \in 1..Len(a) :
            /\ a[k].link = link
            /\ \A j \in 1..(k - 1) : a[j].link # link
    ELSE 0

FindLastIndex(a, link) ==
    IF \E k \in 1..Len(a) : a[k].link = link
    THEN CHOOSE k \in 1..Len(a) :
            /\ a[k].link = link
            /\ \A j \in (k + 1)..Len(a) : a[j].link # link
    ELSE 0

KeepFirst(a, i) == FindIndex(a, a[i].link) = i
KeepLast(a, i)  == FindLastIndex(a, a[i].link) = i
KeepValid(a, i) == Valid(a[i].title, a[i].link)

\* .filter(article => article.link && article.title), from index i on
RECURSIVE FilterValid(_, _)
FilterValid(a, i) ==
    IF i > Len(a) THEN << >>
    ELSE (IF KeepValid(a, i) THEN << a[i] >> ELSE << >>) \o FilterValid(a, i + 1)

\* .filter((v, i, a) => a.findIndex(t => t.link === v.link) === i), from i on
RECURSIVE FilterFirst(_, _)
FilterFirst(a, i) ==
    IF i > Len(a) THEN << >>
    ELSE (IF KeepFirst(a, i) THEN << a[i] >> ELSE << >>) \o FilterFirst(a, i + 1)

RECURSIVE FilterLast(_, _)
FilterLast(a, i) ==
    IF i > Len(a) THEN << >>
    ELSE (IF KeepLast(a, i) THEN << a[i] >> ELSE << >>) \o FilterLast(a, i + 1)

UniqueArticlesLast(articles) == FilterLast(FilterValid(articles, 1), 1)

\* articles.filter(a => a.link && a.title)
\*         .filter((v, i, a) => a.findIndex(t => t.link === v.link) === i)
UniqueArticles(articles) == FilterFirst(FilterValid(articles, 1), 1)

\* ------------------------------------------------------------ articles table
\* A row of table articles (lines 40-48); the id column is read by no query.
Row(title, summary, link, source, created, updated) ==
    [title |-> title, summary |-> summary, link |-> link, source |-> source,
     created_at |-> created, updated_at |-> updated]

RECURSIVE SeqOfSet(_)
SeqOfSet(S) ==
    IF S = {} THEN << >>
    ELSE LET x == CHOOSE x \in S : TRUE IN << x >> \o SeqOfSet(S \ {x})

RECURSIVE SortDesc(_)
SortDesc(N) ==
    IF N = {} THEN << >>
    ELSE LET n == CHOOSE n \in N : \A m \in N : m <= n
         IN  << n >> \o SortDesc(N \ {n})

MaxOf(N) == IF N = {} THEN 0 ELSE CHOOSE n \in N : \A m \in N : m <= n

\* The rows of B, which share one created_at, by link path from p on.
RECURSIVE OrderBucket(_, _, _, _)
OrderBucket(B, p, hi, asc) ==
    IF p < 1 \/ p > hi THEN << >>
    ELSE SeqOfSet({r \in B : r.link.path = p})
         \o OrderBucket(B, IF asc THEN p + 1 ELSE p - 1, hi, asc)

RECURSIVE OrderFrom(_, _, _, _)
OrderFrom(S, times, hi, asc) ==
    IF times = << >> THEN << >>
    ELSE OrderBucket({r \in S : r.created_at = Head(times)},
                     IF asc THEN 1 ELSE hi, hi, asc)
         \o OrderFrom(S, Tail(times), hi, asc)

\* The rows of S in the order of ORDER BY created_at DESC.  SQL leaves the
\* order of rows with equal created_at open (every row of one batch has the
\* same created_at): asc chooses between two of the possible orders, by
\* ascending or by descending link path.
OrderByCreatedDesc(S, asc) ==
    OrderFrom(S, SortDesc({r.created_at : r \in S}),
              MaxOf({r.link.path : r \in S}), asc)

\* LIMIT n OFFSET o
LimitOffset(s, n, o) == SubSeq(s, o + 1, Min(Len(s), o + n))

\* SELECT title, summary, link
Project(r) == [title |-> r.title, summary |-> r.summary, link |-> r.link]

\* SELECT title, summary, link, created_at
ProjectDated(r) ==
    [title |-> r.title, summary |-> r.summary, link |-> r.link,
     created_at |-> r.created_at]

ProjectAll(s) == [i \in 1..Len(s) |-> Project(s[i])]

ProjectDatedAll(s) == [i \in 1..Len(s) |-> ProjectDated(s[i])]

\* WHERE updated_at > NOW() - INTERVAL '5 minutes'
RecentByUpdate(S, t) == {r \in S : r.updated_at > t - CacheWindow}

\* WHERE created_at > NOW() - INTERVAL '5 minutes'
Recent(S, t) == {r \in S : r.created_at > t - CacheWindow}

\* SELECT title, summary, link FROM articles
\* WHERE created_at > NOW() - INTERVAL '5 minutes'
\* ORDER BY created_at DESC LIMIT 50
CacheQuery(S, t, asc) ==
    ProjectAll(LimitOffset(OrderByCreatedDesc(Recent(S, t), asc), CacheLimit, 0))

\* SELECT title, summary, link FROM articles ORDER BY created_at DESC LIMIT 50
FallbackQuery(S, asc) ==
    ProjectAll(LimitOffset(OrderByCreatedDesc(S, asc), FallbackLimit, 0))

\* ON CONFLICT (link) DO NOTHING
UpsertOneKeepFirst(S, a, t) ==
    IF \E r \in S : r.link = a.link THEN S
    ELSE S \cup {Row(a.title, a.summary, a.link, a.source, t, t)}

\* DO UPDATE that also sets created_at
UpsertOneReplace(S, a, t) ==
    {r \in S : r.link # a.link} \cup {Row(a.title, a.summary, a.link, a.source, t, t)}

\* One proposed row of INSERT ... ON CONFLICT (link) DO UPDATE: an existing
\* row with the link keeps created_at and takes title, summary and
\* updated_at = NOW(); otherwise the row is inserted with both defaults NOW().
UpsertOne(S, a, t) ==
    IF \E r \in S : r.link = a.link
    THEN {IF r.link = a.link
          THEN [r EXCEPT !.title = a.title, !.summary = a.summary, !.updated_at = t]
          ELSE r : r \in S}
    ELSE S \cup {Row(a.title, a.summary, a.link, a.source, t, t)}

RECURSIVE Upsert(_, _, _)
Upsert(S, batch, t) ==
    IF batch = << >> THEN S
    ELSE Upsert(UpsertOne(S, Head(batch), t), Tail(batch), t)

\* PostgreSQL rejects an INSERT ... ON CONFLICT DO UPDATE whose proposed rows
\* hold one link twice ("cannot affect row a second time").
HasDuplicateLinks(batch) ==
    \E i, j \in 1..Len(batch) : i # j /\ batch[i].link = batch[j].link

\* values: article.summary || "Sem resumo disponível", article.source || "G1"
InsertValues(articles) ==
    [i \in 1..Len(articles) |->
        [title   |-> articles[i].title,
         summary |-> IF articles[i].summary # <<>> THEN articles[i].summary
                     ELSE DefaultSummary,
         link    |-> articles[i].link,
         source  |-> IF articles[i].source # "" THEN articles[i].source
                     ELSE DefaultSource]]

\* ------------------------------------------------------------ snapshot files
\* A snapshot file is named articles_<ISO date>.json; the model names it by
\* its day number, whose order is the lexicographic order of the names.
DayOf(t) == t \div MinutesPerDay

RECURSIVE SortAsc(_)
SortAsc(N) ==
    IF N = {} THEN << >>
    ELSE LET n == CHOOSE n \in N : \A m \in N : n <= m
         IN  << n >> \o SortAsc(N \ {n})

\* .sort().slice(0, -7): all names but the last 7 of the listing, oldest first
ToPrune(names) ==
    LET sorted == SortAsc(names)
    IN  SubSeq(sorted, 1, Max(0, Len(sorted) - KeepFiles))

Restrict(f, D) == [d \in D |-> f[d]]

\* The content of a snapshot file: JSON.stringify(data, null, 2) written in
\* full, or what writeFileSync leaves when it fails after it has opened, and
\* so emptied, the file (a disk that is full): a text that holds no records.
Whole(data) == [whole |-> TRUE, records |-> data]
Truncated   == [whole |-> FALSE, records |-> << >>]

\* saveToFile(data) at time t on directory dir (day -> content).  fail names
\* the file system call that throws: "none", "readdir", "unlink" with k the
\* index in the prune list of the unlinkSync that throws, "write" when
\* writeFileSync fails to open the file, "truncate" when it fails after.
SaveToFile(dir, data, t, fail, k) ==
    LET today  == DayOf(t)
        prune  == ToPrune(DOMAIN dir)
        gone(n) == {prune[i] : i \in 1..n}
        pruned(n) == Restrict(dir, (DOMAIN dir) \ gone(n))
    IN  CASE fail = "readdir" -> [dir |-> dir, ok |-> FALSE]
          [] fail = "unlink"  -> [dir |-> pruned(k - 1), ok |-> FALSE]
          [] fail = "write"   -> [dir |-> pruned(Len(prune)), ok |-> FALSE]
          [] fail = "truncate" ->
                [dir |-> [d \in ((DOMAIN dir) \ gone(Len(prune))) \cup {today} |->
                            IF d = today THEN Truncated ELSE dir[d]],
                 ok  |-> FALSE]
          [] OTHER            ->
                [dir |-> [d \in ((DOMAIN dir) \ gone(Len(prune))) \cup {today} |->
                            IF d = today THEN Whole(data) ELSE dir[d]],
                 ok  |-> TRUE]

\* ------------------------------------------------------------------- state
VARIABLES
    now,        \* the clock, in minutes
    rows,       \* the committed rows of table articles
    files,      \* the storage directory: day -> content of that day's snapshot
    checkedOut, \* clients checked out of the pool by pool.connect()
    frames,     \* slot -> the activation of the GET /scrape handler in it
    started,    \* GET /scrape requests received so far
    ticks,      \* clock advances so far
    art,        \* the activation of the GET /articles handler
    asked,      \* GET /articles requests received so far
    boot,       \* the activation of startServer and initDB
    \* history
    rows0,      \* the rows at the start
    commits,    \* the committed saveToDB calls: NOW() of the transaction, batch,
                \* slot of the request, transactions of other requests open
    fileCalls   \* the saveToFile calls so far, summarised

vars == << now, rows, files, checkedOut, frames, started, ticks, art, asked,
          boot, rows0, commits, fileCalls >>

history == << rows0, commits, fileCalls >>

listing == << art, asked >>

Slots   == {1, 2}
PoolMax == 20

NoRes == [status |-> 0]

\* res.json(body) / res.status(n).json(body).  fields names the keys the body
\* has; a key the body lacks holds a filler (timestamp and performance carry
\* clock readings and are named only).
Res(status, fields, success, fromCache, message, articles, error, database, file) ==
    [status |-> status, fields |-> fields, success |-> success,
     fromCache |-> fromCache, message |-> message, count |-> Len(articles),
     articles |-> articles, error |-> error,
     storage |-> [database |-> database, file |-> file]]

\* lines 179-186
CacheResponse(cacheRows) ==
    Res(200, {"success", "fromCache", "count", "articles", "timestamp", "performance"},
        TRUE, TRUE, Null, cacheRows, Null, FALSE, FALSE)

FreshResponseAllOrNothing(uniqueArticles, dbSuccess, fileSuccess) ==
    Res(200, {"success", "fromCache", "count", "articles", "timestamp", "performance",
              "storage"},
        TRUE, FALSE, Null, uniqueArticles, Null, dbSuccess /\ fileSuccess, fileSuccess)

\* lines 242-253
FreshResponse(uniqueArticles, dbSuccess, fileSuccess) ==
    Res(200, {"success", "fromCache", "count", "articles", "timestamp", "performance",
              "storage"},
        TRUE, FALSE, Null, uniqueArticles, Null, dbSuccess, fileSuccess)

FallbackResponseNoError(dbRows, error) ==
    Res(200, {"success", "fromCache", "message", "count", "articles", "timestamp", "error"},
        Len(dbRows) > 0, TRUE,
        IF Len(dbRows) > 0 THEN "Dados podem estar desatualizados"
        ELSE "Nenhum dado disponível",
        dbRows, Null, FALSE, FALSE)

\* lines 263-273
FallbackResponse(dbRows, error) ==
    Res(200, {"success", "fromCache", "message", "count", "articles", "timestamp", "error"},
        Len(dbRows) > 0, TRUE,
        IF Len(dbRows) > 0 THEN "Dados podem estar desatualizados"
        ELSE "Nenhum dado disponível",
        dbRows, IF Len(dbRows) > 0 THEN Null ELSE error, FALSE, FALSE)

\* lines 276-281
ErrorResponse(error) ==
    Res(500, {"success", "message", "error", "details"},
        FALSE, FALSE, "Erro ao coletar os dados", << >>, error, FALSE, FALSE)

CacheValidStrict(cacheRows) == Len(cacheRows) > CacheThreshold

\* if (cacheResult.rows.length >= 10)
CacheValid(cacheRows) == Len(cacheRows) >= CacheThreshold

\* The activation of the handler: its position, its locals, the transaction
\* of its saveToDB call, and what happened to it so far.
IdleFrame ==
    [pc             |-> "idle",
     error          |-> Null,      \* the error caught at line 254
     articles       |-> << >>,
     uniqueArticles |-> << >>,
     fileSuccess    |-> FALSE,
     txOpen         |-> FALSE,     \* BEGIN done, neither COMMIT nor ROLLBACK
     txStart        |-> 0,         \* NOW() of the transaction
     txPending      |-> << >>,     \* rows proposed by the INSERT, uncommitted
     res            |-> NoRes,
     \* history
     gate           |-> "none",    \* cache gate query: none, pending, ok, failed
     gateCount      |-> 0,         \* rows within the window when it was answered
     fetches        |-> 0,         \* axios.get calls
     fetchError     |-> Null,      \* the error of the fetch, if it failed
     saveToDB       |-> "none",    \* none, running, true, false, threw
     saveToFile     |-> "none",    \* none, true, false
     rowsAtSave     |-> {},        \* rows when saveToDB was called
     commitsAtSave  |-> 0,         \* commits made before saveToDB was called
     rowsAtFallback |-> {},        \* rows when the fallback query was answered
     dbEverUp       |-> FALSE,     \* the store answered the request at least once
     commitsAtGate  |-> 0,         \* commits made before the cache gate query was answered
     filesAtSave    |-> << >>,     \* the directory when saveToFile was called
     events         |-> << >>,     \* what the activation did, in order
     markup         |-> << >>,     \* the .feed-post nodes of the fetched page
     responses      |-> 0]

InFlight(s) == frames[s].pc \notin {"idle", "done"}

Set(s, f) == frames' = [frames EXCEPT ![s] = f]

Respond(f, res) == [f EXCEPT !.pc = "done", !.res = res, !.responses = @ + 1]

Log(f, evs) == [f EXCEPT !.events = @ \o evs]

AfterFetchPersistFirst(empty) ==
    << "fetchDone", "dbStart" >> \o (IF empty THEN << "dbDone" >> ELSE << >>)
        \o << "fileStart", "fileDone", "extract", "dedup" >>
        \o (IF empty THEN << "response" >> ELSE << >>)

\* What runs when axios.get resolves, in the order of lines 198-236: the
\* extraction, the deduplication, saveToDB up to its first await (to its
\* return for an empty batch, line 92), saveToFile to its return, and for an
\* empty batch the response once Promise.all has resolved.
AfterFetch(empty) ==
    << "fetchDone", "extract", "dedup", "dbStart" >>
        \o (IF empty THEN << "dbDone" >> ELSE << >>)
        \o << "fileStart", "fileDone" >>
        \o (IF empty THEN << "response" >> ELSE << >>)

DbErrorMessage == "connect ECONNREFUSED"

\* ---------------------------------------------------- startServer, initDB
\* startServer awaits initDB, which awaits pool.connect() (line 37).  acquired
\* and released count the clients initDB took from the pool and gave back.
Booting == [pc |-> "connect", acquired |-> 0, released |-> 0]

\* The server after initDB has resolved and app.listen has been called.
Listening == [pc |-> "listening", acquired |-> 1, released |-> 1]

\* pool.connect() resolves; CREATE TABLE IF NOT EXISTS is sent (lines 37-39).
InitDbConnectOk ==
    /\ boot.pc = "connect"
    /\ checkedOut < PoolMax
    /\ checkedOut' = checkedOut + 1
    /\ boot' = [boot EXCEPT !.pc = "create", !.acquired = @ + 1]
    /\ UNCHANGED << now, rows, files, frames, started, ticks, history, listing >>

\* pool.connect() rejects, outside the try of initDB: startServer catches and
\* the process exits (lines 373-376).
InitDbConnectFail ==
    /\ boot.pc = "connect"
    /\ boot' = [boot EXCEPT !.pc = "exited"]
    /\ UNCHANGED << now, rows, files, checkedOut, frames, started, ticks, history,
                    listing >>

\* The statement succeeds: the finally releases the client and app.listen is
\* called (lines 53, 58, 367).
InitDbCreateOk ==
    /\ boot.pc = "create"
    /\ checkedOut' = checkedOut - 1
    /\ boot' = [boot EXCEPT !.pc = "listening", !.released = @ + 1]
    /\ UNCHANGED << now, rows, files, frames, started, ticks, history, listing >>

\* The statement fails: initDB rethrows, its finally releases the client and
\* the process exits (lines 54-58, 373-376).
InitDbCreateFail ==
    /\ boot.pc = "create"
    /\ checkedOut' = checkedOut - 1
    /\ boot' = [boot EXCEPT !.pc = "exited", !.released = @ + 1]
    /\ UNCHANGED << now, rows, files, frames, started, ticks, history, listing >>

\* ------------------------------------------------------ GET /scrape handler
\* app.get("/scrape", ...) is entered: the cache gate query is sent
\* (lines 160-174).  A request takes the lowest free slot.
ScrapeStart(s, maxRequests, maxInFlight) ==
    /\ boot.pc = "listening"
    /\ started < maxRequests
    /\ ~InFlight(s)
    /\ \A q \in Slots : q < s => InFlight(q)
    /\ Cardinality({q \in Slots : InFlight(q)}) < maxInFlight
    /\ started' = started + 1
    /\ Set(s, [IdleFrame EXCEPT !.pc = "cacheGate", !.gate = "pending",
                                !.dbEverUp = FALSE,
                                !.events = << "gateQuery" >>])
    /\ UNCHANGED << now, rows, files, checkedOut, ticks, history, listing, boot >>

\* The cache gate query answers with at least 10 rows: they are the response
\* (lines 176-187).
CacheHit(s, asc) ==
    /\ frames[s].pc = "cacheGate"
    /\ LET cacheRows == CacheQuery(rows, now, asc)
       IN  /\ CacheValid(cacheRows)
           /\ Set(s, Respond(Log([frames[s] EXCEPT
                                     !.gate = "ok",
                                     !.gateCount = Cardinality(Recent(rows, now)),
                                     !.commitsAtGate = Len(commits),
                                     !.dbEverUp = TRUE],
                                 << "gateDone", "response" >>),
                             CacheResponse(cacheRows)))
    /\ UNCHANGED << now, rows, files, checkedOut, started, ticks, history, listing, boot >>

\* The cache gate query answers with fewer rows: axios.get is sent
\* (lines 176, 190-196).
CacheMiss(s) ==
    /\ frames[s].pc = "cacheGate"
    /\ ~CacheValid(CacheQuery(rows, now, TRUE))
    /\ Set(s, Log([frames[s] EXCEPT !.pc = "fetch", !.gate = "ok",
                                    !.gateCount = Cardinality(Recent(rows, now)),
                                    !.commitsAtGate = Len(commits),
                                    !.fetches = @ + 1, !.dbEverUp = TRUE],
                   << "gateDone", "fetchStart" >>))
    /\ UNCHANGED << now, rows, files, checkedOut, started, ticks, history, listing, boot >>

\* The cache gate query fails: the catch of line 254 sends the fallback query.
CacheGateFail(s) ==
    /\ frames[s].pc = "cacheGate"
    /\ Set(s, Log([frames[s] EXCEPT !.pc = "fallback", !.gate = "failed",
                                    !.gateCount = Cardinality(Recent(rows, now)),
                                    !.error = DbErrorMessage],
                   << "gateFailed", "fallbackQuery" >>))
    /\ UNCHANGED << now, rows, files, checkedOut, started, ticks, history, listing, boot >>

\* History of the saveToFile calls: how many, the days of the first and of
\* the last, whether so far every call returned true and came on the day
\* after the call before it, and the batch of the last call that returned
\* true with the day of that call.
NoFileCalls ==
    [n |-> 0, first |-> 0, last |-> 0, daily |-> TRUE,
     saved |-> FALSE, savedDay |-> 0, savedData |-> << >>]

NoteFileCall(h, day, ok, data) ==
    [n     |-> h.n + 1,
     first |-> IF h.n = 0 THEN day ELSE h.first,
     last  |-> day,
     daily |-> h.daily /\ ok /\ (h.n > 0 => day = h.last + 1),
     saved     |-> h.saved \/ ok,
     savedDay  |-> IF ok THEN day ELSE h.savedDay,
     savedData |-> IF ok THEN data ELSE h.savedData]

\* The outcomes saveToFile can have on directory dir: no call fails, or one
\* of readdirSync, an unlinkSync or writeFileSync throws.
FileFailures(dir) ==
    {<< "none", 1 >>, << "readdir", 1 >>, << "write", 1 >>, << "truncate", 1 >>}
    \cup {<< "unlink", k >> : k \in 1..Len(ToPrune(DOMAIN dir))}

\* axios.get resolves with markup: extraction and deduplication (lines
\* 198-230), then saveToDB runs up to its first await and saveToFile runs to
\* its end, both inside the argument list of Promise.all (lines 233-236).  An
\* empty batch makes saveToDB return true at once (line 92), and the response
\* follows (lines 242-253).
FetchOk(s, markup, fail) ==
    /\ frames[s].pc = "fetch"
    /\ fail \in FileFailures(files)
    /\ LET articles       == ExtractAll(markup)
           uniqueArticles == UniqueArticles(articles)
           saved          == SaveToFile(files, uniqueArticles, now, fail[1], fail[2])
           f == Log([frames[s] EXCEPT
                        !.articles = articles,
                        !.uniqueArticles = uniqueArticles,
                        !.fileSuccess = saved.ok,
                        !.saveToFile = IF saved.ok THEN "true" ELSE "false",
                        !.rowsAtSave = rows,
                        !.commitsAtSave = Len(commits),
                        !.filesAtSave = files,
                        !.markup = markup],
                    AfterFetch(uniqueArticles = << >>))
       IN  /\ files' = saved.dir
           /\ IF uniqueArticles = << >>
              THEN Set(s, Respond([f EXCEPT !.saveToDB = "true"],
                                  FreshResponse(uniqueArticles, TRUE, saved.ok)))
              ELSE Set(s, [f EXCEPT !.pc = "connect", !.saveToDB = "running"])
    /\ fileCalls' = NoteFileCall(fileCalls, DayOf(now), fail[1] = "none",
                                 UniqueArticles(ExtractAll(markup)))
    /\ UNCHANGED << now, rows, checkedOut, started, ticks, rows0, commits, listing, boot >>

\* axios.get rejects (network error, timeout, status outside 2xx): the catch
\* of line 254 sends the fallback query.
FetchFail(s, message) ==
    /\ frames[s].pc = "fetch"
    /\ Set(s, Log([frames[s] EXCEPT !.pc = "fallback", !.error = message,
                                    !.fetchError = message],
                   << "fetchFailed", "fallbackQuery" >>))
    /\ UNCHANGED << now, rows, files, checkedOut, started, ticks, history, listing, boot >>

\* ---------------------------------------------------------------- saveToDB
\* pool.connect() resolves (line 94); BEGIN is sent (line 96).
DbConnectOk(s) ==
    /\ frames[s].pc = "connect"
    /\ checkedOut < PoolMax
    /\ checkedOut' = checkedOut + 1
    /\ Set(s, Log([frames[s] EXCEPT !.pc = "begin", !.dbEverUp = TRUE],
                   << "acquire" >>))
    /\ UNCHANGED << now, rows, files, started, ticks, history, listing, boot >>

\* pool.connect() rejects, outside the try of saveToDB: saveToDB rejects,
\* Promise.all rejects and the catch of line 254 sends the fallback query.
DbConnectFail(s) ==
    /\ frames[s].pc = "connect"
    /\ Set(s, Log([frames[s] EXCEPT !.pc = "fallback", !.saveToDB = "threw",
                                    !.error = DbErrorMessage],
                   << "dbThrew", "fallbackQuery" >>))
    /\ UNCHANGED << now, rows, files, checkedOut, started, ticks, history, listing, boot >>

\* BEGIN succeeds; the INSERT is sent (lines 99-118).
DbBeginOk(s) ==
    /\ frames[s].pc = "begin"
    /\ Set(s, [frames[s] EXCEPT !.pc = "insert", !.txOpen = TRUE, !.txStart = now,
                                !.txPending = << >>])
    /\ UNCHANGED << now, rows, files, checkedOut, started, ticks, history, listing, boot >>

InsertEffectAutocommit(S, values, t) ==
    [rows |-> Upsert(S, values, t), pending |-> << >>]

\* The INSERT inside the transaction: the proposed rows stay uncommitted.
InsertEffect(S, values, t) == [rows |-> S, pending |-> values]

\* The INSERT succeeds; COMMIT is sent (line 120).
DbInsertOk(s) ==
    /\ frames[s].pc = "insert"
    /\ LET values == InsertValues(frames[s].uniqueArticles)
           eff    == InsertEffect(rows, values, frames[s].txStart)
       IN  /\ ~HasDuplicateLinks(values)
           /\ rows' = eff.rows
           /\ Set(s, [frames[s] EXCEPT !.pc = "commit", !.txPending = eff.pending])
    /\ UNCHANGED << now, files, checkedOut, started, ticks, history, listing, boot >>

\* BEGIN, the INSERT or COMMIT fails (the store is unreachable or rejects the
\* statement): the catch of line 123 sends ROLLBACK.
DbStatementFail(s) ==
    /\ frames[s].pc \in {"begin", "insert", "commit"}
    /\ Set(s, [frames[s] EXCEPT !.pc = "rollback"])
    /\ UNCHANGED << now, rows, files, checkedOut, started, ticks, history, listing, boot >>

\* COMMIT succeeds: the proposed rows are applied, saveToDB returns true
\* through its finally (line 128), Promise.all resolves and the response is
\* sent (lines 238-253).
DbCommitOk(s) ==
    /\ frames[s].pc = "commit"
    /\ rows' = Upsert(rows, frames[s].txPending, frames[s].txStart)
    /\ checkedOut' = checkedOut - 1
    /\ Set(s, Respond(Log([frames[s] EXCEPT !.txOpen = FALSE, !.txPending = << >>,
                                            !.saveToDB = "true"],
                          << "release", "dbDone", "response" >>),
                      FreshResponse(frames[s].uniqueArticles, TRUE,
                                    frames[s].fileSuccess)))
    /\ commits' = Append(commits,
                       [time  |-> frames[s].txStart,
                        batch |-> frames[s].uniqueArticles,
                        slot  |-> s,
                        open  |-> {q \in Slots \ {s} : frames[q].txOpen}])
    /\ UNCHANGED << now, files, started, ticks, rows0, fileCalls, listing, boot >>

\* ROLLBACK succeeds: saveToDB returns false through its finally and the
\* response is sent (lines 124-128, 238-253).
DbRollbackOk(s) ==
    /\ frames[s].pc = "rollback"
    /\ checkedOut' = checkedOut - 1
    /\ Set(s, Respond(Log([frames[s] EXCEPT !.txOpen = FALSE, !.txPending = << >>,
                                            !.saveToDB = "false"],
                          << "release", "dbDone", "response" >>),
                      FreshResponse(frames[s].uniqueArticles, FALSE,
                                    frames[s].fileSuccess)))
    /\ UNCHANGED << now, rows, files, started, ticks, history, listing, boot >>

DbRollbackFailLeak(s) ==
    /\ frames[s].pc = "rollback"
    /\ Set(s, Log([frames[s] EXCEPT !.pc = "fallback", !.txOpen = FALSE,
                                    !.txPending = << >>, !.saveToDB = "threw",
                                    !.error = DbErrorMessage],
                   << "dbThrew", "fallbackQuery" >>))
    /\ UNCHANGED << now, rows, files, checkedOut, started, ticks, history, listing, boot >>

\* ROLLBACK fails inside the catch: the finally releases the client, saveToDB
\* rejects, Promise.all rejects and the catch of line 254 sends the fallback
\* query.  The store drops the transaction of the lost session.
DbRollbackFail(s) ==
    /\ frames[s].pc = "rollback"
    /\ checkedOut' = checkedOut - 1
    /\ Set(s, Log([frames[s] EXCEPT !.pc = "fallback", !.txOpen = FALSE,
                                    !.txPending = << >>, !.saveToDB = "threw",
                                    !.error = DbErrorMessage],
                   << "release", "dbThrew", "fallbackQuery" >>))
    /\ UNCHANGED << now, rows, files, started, ticks, history, listing, boot >>

\* ---------------------------------------------------------------- fallback
\* The fallback query answers: lines 263-273.
FallbackOk(s, asc) ==
    /\ frames[s].pc = "fallback"
    /\ Set(s, Respond(Log([frames[s] EXCEPT !.dbEverUp = TRUE,
                                            !.rowsAtFallback = rows],
                          << "response" >>),
                      FallbackResponse(FallbackQuery(rows, asc), frames[s].error)))
    /\ UNCHANGED << now, rows, files, checkedOut, started, ticks, history, listing, boot >>

FallbackFailSilent(s) ==
    /\ frames[s].pc = "fallback"
    /\ Set(s, [frames[s] EXCEPT !.pc = "done"])
    /\ UNCHANGED << now, rows, files, checkedOut, started, ticks, history, listing, boot >>

\* The fallback query fails: lines 274-281.
FallbackFail(s) ==
    /\ frames[s].pc = "fallback"
    /\ Set(s, Respond(Log(frames[s], << "response" >>),
                      ErrorResponse(frames[s].error)))
    /\ UNCHANGED << now, rows, files, checkedOut, started, ticks, history, listing, boot >>

\* ---------------------------------------------------- GET /articles handler
\* A value of req.query: absent, or the text given.
Absent      == [given |-> FALSE, text |-> << >>]
Given(text) == [given |-> TRUE, text |-> text]

Digits == {"0", "1", "2", "3", "4", "5", "6", "7", "8", "9"}

DigitValue(c) ==
    CASE c = "0" -> 0 [] c = "1" -> 1 [] c = "2" -> 2 [] c = "3" -> 3 [] c = "4" -> 4
      [] c = "5" -> 5 [] c = "6" -> 6 [] c = "7" -> 7 [] c = "8" -> 8 [] c = "9" -> 9

\* value of the longest prefix of digits of s, read after acc; n counts them
RECURSIVE DigitPrefix(_, _, _)
DigitPrefix(s, acc, n) ==
    IF s # << >> /\ Head(s) \in Digits
    THEN DigitPrefix(Tail(s), 10 * acc + DigitValue(Head(s)), n + 1)
    ELSE [val |-> acc, n |-> n]

NaN == [nan |-> TRUE, val |-> 0]
Num(v) == [nan |-> FALSE, val |-> v]

\* parseInt(text): an optional sign, then the leading digits; NaN without them
ParseIntText(text) ==
    LET neg  == text # << >> /\ Head(text) = "-"
        body == IF neg \/ (text # << >> /\ Head(text) = "+") THEN Tail(text) ELSE text
        d    == DigitPrefix(body, 0, 0)
    IN  IF d.n = 0 THEN NaN ELSE Num(IF neg THEN 0 - d.val ELSE d.val)

\* parseInt(limit) with { limit = 50 }: the default stands for an absent key
ParseInt(value, default) ==
    IF value.given THEN ParseIntText(value.text) ELSE Num(default)

\* new Date(text): a date of the model is the digits of its minute; any other
\* text gives Invalid Date
ParseDate(text) ==
    LET d == DigitPrefix(text, 0, 0)
    IN  IF d.n > 0 /\ d.n = Len(text) THEN [valid |-> TRUE, t |-> d.val]
        ELSE [valid |-> FALSE, t |-> 0]

\* a value of req.query is truthy: given and not the empty text
Truthy(value) == value.given /\ value.text # << >>

Lower(c) ==
    CASE c = "A" -> "a" [] c = "B" -> "b" [] c = "C" -> "c" [] c = "S" -> "s"
      [] OTHER -> c

\* text ILIKE pattern: % matches any run of characters, _ any one character,
\* any other character itself without regard to case
RECURSIVE ILike(_, _)
ILike(text, pattern) ==
    IF pattern = << >> THEN text = << >>
    ELSE IF Head(pattern) = "%"
         THEN ILike(text, Tail(pattern))
              \/ (text # << >> /\ ILike(Tail(text), pattern))
         ELSE /\ text # << >>
              /\ Head(pattern) = "_" \/ Lower(Head(text)) = Lower(Head(pattern))
              /\ ILike(Tail(text), Tail(pattern))

\* lines 297-322: the query text as its parts, and the parameters.  A
\* condition names its column test and the index of its parameter.
BuildQuery(search, fromDate, toDate, limit, offset) ==
    LET c1 == IF Truthy(search)
              THEN << [test |-> "title ILIKE OR summary ILIKE", param |-> 1] >>
              ELSE << >>
        p1 == IF Truthy(search) THEN << << "%" >> \o search.text \o << "%" >> >>
              ELSE << >>
        c2 == IF Truthy(fromDate)
              THEN c1 \o << [test |-> "created_at >=", param |-> Len(p1) + 1] >>
              ELSE c1
        p2 == IF Truthy(fromDate) THEN Append(p1, ParseDate(fromDate.text)) ELSE p1
        c3 == IF Truthy(toDate)
              THEN c2 \o << [test |-> "created_at <=", param |-> Len(p2) + 1] >>
              ELSE c2
        p3 == IF Truthy(toDate) THEN Append(p2, ParseDate(toDate.text)) ELSE p2
    IN  [query  |-> [select      |-> "title, summary, link, created_at",
                     where       |-> c3,
                     orderBy     |-> "created_at DESC",
                     limitParam  |-> Len(p3) + 1,
                     offsetParam |-> Len(p3) + 2],
         params |-> p3 \o << ParseInt(limit, DefaultLimit),
                             ParseInt(offset, DefaultOffset) >>]

\* lines 325-328: the first replace swaps the select list, the second drops
\* LIMIT $n OFFSET $m; ORDER BY created_at DESC stays in the text.
CountQuery(query) ==
    [query EXCEPT !.select = "COUNT(*)", !.limitParam = 0, !.offsetParam = 0]

\* params.slice(0, -2)
CountParams(params) == SubSeq(params, 1, Len(params) - 2)

\* PostgreSQL refuses the statement: an aggregate select list with an ORDER BY
\* on a column that is not grouped ("column articles.created_at must appear
\* in the GROUP BY clause or be used in an aggregate function"), an invalid
\* date, a LIMIT or OFFSET that is NaN or negative.
Refused(query, params) ==
    \/ query.select = "COUNT(*)" /\ query.orderBy # ""
    \/ \E i \in 1..Len(query.where) :
          /\ query.where[i].test # "title ILIKE OR summary ILIKE"
          /\ ~params[query.where[i].param].valid
    \/ /\ query.limitParam > 0
       /\ \/ params[query.limitParam].nan
          \/ params[query.limitParam].val < 0
    \/ /\ query.offsetParam > 0
       /\ \/ params[query.offsetParam].nan
          \/ params[query.offsetParam].val < 0

Satisfies(r, cond, params) ==
    CASE cond.test = "title ILIKE OR summary ILIKE" ->
            ILike(r.title, params[cond.param]) \/ ILike(r.summary, params[cond.param])
      [] cond.test = "created_at >=" -> r.created_at >= params[cond.param].t
      [] cond.test = "created_at <=" -> r.created_at <= params[cond.param].t

\* The rows the WHERE clause keeps
Matching(S, query, params) ==
    {r \in S : \A i \in 1..Len(query.where) : Satisfies(r, query.where[i], params)}

\* pool.query(query, params) on rows S: refused, or the rows of the answer
Execute(S, query, params, asc) ==
    IF Refused(query, params) THEN [ok |-> FALSE, rows |-> << >>, count |-> 0]
    ELSE IF query.select = "COUNT(*)"
         THEN [ok |-> TRUE, rows |-> << >>,
               count |-> Cardinality(Matching(S, query, params))]
         ELSE LET ordered == OrderByCreatedDesc(Matching(S, query, params), asc)
                  page == IF query.limitParam > 0
                          THEN LimitOffset(ordered, params[query.limitParam].val,
                                           params[query.offsetParam].val)
                          ELSE ordered
              IN  [ok |-> TRUE, rows |-> ProjectDatedAll(page), count |-> 0]

NoListing == [status |-> 0]

\* lines 335-342
ListingResponse(result, countResult, limit, offset) ==
    [status |-> 200, success |-> TRUE, count |-> Len(result.rows),
     total |-> countResult.count, limit |-> limit, offset |-> offset,
     articles |-> result.rows, message |-> Null]

\* lines 345-349
ListingError ==
    [status |-> 500, success |-> FALSE, count |-> 0, total |-> 0, limit |-> NaN,
     offset |-> NaN, articles |-> << >>, message |-> "Erro ao buscar artigos"]

Pending == [ok |-> FALSE, rows |-> << >>, count |-> 0]

IdleListing ==
    [pc |-> "idle", search |-> Absent, fromDate |-> Absent, toDate |-> Absent,
     limit |-> Absent, offset |-> Absent,
     query |-> << >>, params |-> << >>,
     pageState |-> "none", result |-> Pending,          \* the page query
     countState |-> "none", countResult |-> Pending,    \* the count query
     lost |-> FALSE,            \* a query failed because the store was unreachable
     res |-> NoListing]

\* app.get("/articles", ...) is entered: the query is built and both queries
\* are sent (lines 287-333).
ArticlesStart(search, fromDate, toDate, limit, offset, maxRequests) ==
    /\ boot.pc = "listening"
    /\ asked < maxRequests
    /\ art.pc \in {"idle", "done"}
    /\ asked' = asked + 1
    /\ LET built == BuildQuery(search, fromDate, toDate, limit, offset)
       IN  art' = [IdleListing EXCEPT
                      !.pc = "queries", !.search = search, !.fromDate = fromDate,
                      !.toDate = toDate, !.limit = limit, !.offset = offset,
                      !.query = built.query, !.params = built.params,
                      !.pageState = "pending", !.countState = "pending"]
    /\ UNCHANGED << now, rows, files, checkedOut, frames, started, ticks, history, boot >>

\* Promise.all over both queries, then lines 335-349: the first failure is
\* answered with status 500, two answers with the listing.
Join(a) ==
    IF a.pc # "queries" THEN a
    ELSE IF a.pageState = "failed" \/ a.countState = "failed"
         THEN [a EXCEPT !.pc = "done", !.res = ListingError]
         ELSE IF a.pageState = "ok" /\ a.countState = "ok"
              THEN [a EXCEPT !.pc = "done",
                             !.res = ListingResponse(a.result, a.countResult,
                                        a.params[a.query.limitParam],
                                        a.params[a.query.offsetParam])]
              ELSE a

\* The page query ends: answered by the store, or lost with the connection.
PageQueryDone(asc, reachable) ==
    /\ art.pageState = "pending"
    /\ LET r == IF reachable THEN Execute(rows, art.query, art.params, asc)
                ELSE Pending
       IN  art' = Join([art EXCEPT !.pageState = IF r.ok THEN "ok" ELSE "failed",
                                   !.result = r,
                                   !.lost = @ \/ ~reachable])
    /\ UNCHANGED << now, rows, files, checkedOut, frames, started, ticks, asked, history, boot >>

\* The count query ends likewise.
CountQueryDone(reachable) ==
    /\ art.countState = "pending"
    /\ LET r == IF reachable
                THEN Execute(rows, CountQuery(art.query), CountParams(art.params), TRUE)
                ELSE Pending
       IN  art' = Join([art EXCEPT !.countState = IF r.ok THEN "ok" ELSE "failed",
                                   !.countResult = r,
                                   !.lost = @ \/ ~reachable])
    /\ UNCHANGED << now, rows, files, checkedOut, frames, started, ticks, asked, history, boot >>

\* -------------------------------------------------------------- environment
\* The clock advances by d minutes.
Tick(d, maxTicks) ==
    /\ ticks < maxTicks
    /\ ticks' = ticks + 1
    /\ now' = now + d
    /\ UNCHANGED << rows, files, checkedOut, frames, started, history, listing, boot >>

\* ------------------------------------------------------------------ inputs
Href(origin, path) == [origin |-> origin, path |-> path]
Post(postLink, resumo, href) == [postLink |-> postLink, resumo |-> resumo, href |-> href]

\* A path no stored row has at the start.
NewPath == CacheLimit + 10

PostA  == Post(<< " ", "a" >>, << >>, Href("", 1))
PostB  == Post(<< "b" >>, << "s", " " >>, Href(SiteOrigin, 1))
PostC  == Post(<< "c" >>, << "s" >>, Href("", NewPath))

\* The pages the site serves in the pipeline specification: an empty page, a
\* page naming one article twice, and a page with a second article.
Pages == { << >>, << PostA, PostB >>, << PostB, PostC >> }

\* The .feed-post nodes a page is made of: a relative and an absolute href of
\* one article under two titles, a second article, a node whose title is
\* blank and a node without href.
Posts ==
    { PostA, PostB, PostC,
      Post(<< " " >>, << "s" >>, Href("", 1)),
      Post(<< "a" >>, << >>, EmptyLink) }

SeqsUpTo(S, n) == UNION {[1..k -> S] : k \in 0..n}

Markups == SeqsUpTo(Posts, MaxPosts)

FetchErrors == {"timeout of 10000ms exceeded", "Request failed with status code 503"}

StartTime == 2 * CacheWindow

\* A store of nOld rows created long ago and nRecent rows created a minute
\* before the start, as earlier scrapes left them.
Preload(nOld, nRecent) ==
    {Row(<< "a" >>, DefaultSummary, Href(SiteOrigin, p), DefaultSource,
         IF p <= nOld THEN 0 ELSE StartTime - 1,
         IF p <= nOld THEN 0 ELSE StartTime - 1) : p \in 1..(nOld + nRecent)}

InitStores ==
    { << 0, 0 >>, << 1, 0 >>, << 1, CacheThreshold - 1 >>, << 0, CacheThreshold >>,
      << 1, CacheLimit + 1 >> }

EmptyDir == [d \in {} |-> << >>]

\* ------------------------------------------------------------ specification
Init ==
    /\ now = StartTime
    /\ \E st \in InitStores : rows = Preload(st[1], st[2])
    /\ rows0 = rows
    /\ commits = << >>
    /\ fileCalls = NoFileCalls
    /\ files = EmptyDir
    /\ checkedOut = 0
    /\ frames = [s \in Slots |-> IdleFrame]
    /\ started = 0
    /\ ticks = 0
    /\ art = IdleListing
    /\ boot = Listening
    /\ asked = 0

\* The steps of the requests, the pages drawn from pages.
Pipeline(pages, maxRequests) ==
    \/ \E s \in Slots : ScrapeStart(s, maxRequests, Cardinality(Slots))
    \/ \E s \in Slots, asc \in BOOLEAN : CacheHit(s, asc)
    \/ \E s \in Slots : CacheMiss(s)
    \/ \E s \in Slots : CacheGateFail(s)
    \/ \E s \in Slots, markup \in pages, fail \in FileFailures(files) :
            FetchOk(s, markup, fail)
    \/ \E s \in Slots, message \in FetchErrors : FetchFail(s, message)
    \/ \E s \in Slots : DbConnectOk(s)
    \/ \E s \in Slots : DbConnectFail(s)
    \/ \E s \in Slots : DbBeginOk(s)
    \/ \E s \in Slots : DbInsertOk(s)
    \/ \E s \in Slots : DbStatementFail(s)
    \/ \E s \in Slots : DbCommitOk(s)
    \/ \E s \in Slots : DbRollbackOk(s)
    \/ \E s \in Slots : DbRollbackFail(s)
    \/ \E s \in Slots, asc \in BOOLEAN : FallbackOk(s, asc)
    \/ \E s \in Slots : FallbackFail(s)

Next ==
    \/ Pipeline(Pages, MaxScrapes)
    \/ \E d \in {1, CacheWindow} : Tick(d, MaxTicks)

Spec == Init /\ [][Next]_vars

\* One request on any page of up to MaxPosts nodes.
NextExtract == Pipeline(Markups, 1)

SpecExtract == Init /\ [][NextExtract]_vars

\* Days of scraping: at most one request a day, every call succeeding, the
\* clock moving a day at a time between requests, the store empty at the
\* start.
MaxDays        == 10    \* days the clock advances
MaxDayScrapes  == 10    \* GET /scrape requests per behaviour

InitDaily ==
    /\ now = StartTime
    /\ rows = {}
    /\ rows0 = rows
    /\ commits = << >>
    /\ fileCalls = NoFileCalls
    /\ files = EmptyDir
    /\ checkedOut = 0
    /\ frames = [s \in Slots |-> IdleFrame]
    /\ started = 0
    /\ ticks = 0
    /\ art = IdleListing
    /\ boot = Listening
    /\ asked = 0

NextDaily ==
    \/ \E s \in Slots :
            /\ fileCalls.n > 0 => DayOf(now) > fileCalls.last
            /\ ScrapeStart(s, MaxDayScrapes, 1)
    \/ \E s \in Slots : CacheMiss(s)
    \/ \E s \in Slots : FetchOk(s, << PostA, PostB >>, << "none", 1 >>)
    \/ \E s \in Slots : DbConnectOk(s)
    \/ \E s \in Slots : DbBeginOk(s)
    \/ \E s \in Slots : DbInsertOk(s)
    \/ \E s \in Slots : DbCommitOk(s)
    \/ /\ \A s \in Slots : ~InFlight(s)
       /\ Tick(MinutesPerDay, MaxDays)

SpecDaily == InitDaily /\ [][NextDaily]_vars

\* Listing requests against a store that holds rows of several titles and
\* times, or 25 rows.
MaxListings == 1    \* GET /articles requests per behaviour

SmallStore ==
    { Row(<< "a" >>, DefaultSummary, Href(SiteOrigin, 1), DefaultSource, 0, 0),
      Row(<< "A", "b" >>, << "s" >>, Href(SiteOrigin, 2), DefaultSource,
          StartTime - 1, StartTime - 1),
      Row(<< "c" >>, << "a", "b" >>, Href(SiteOrigin, 3), DefaultSource,
          StartTime - 1, StartTime),
      Row(<< "c" >>, << "s" >>, Href(SiteOrigin, 4), DefaultSource,
          StartTime, StartTime) }

ListingStores == { SmallStore, Preload(20, 5) }

Searches == { Absent, Given(<< "b" >>), Given(<< "_" >>) }
Dates    == { Absent, Given(<< "9" >>), Given(<< "x" >>) }
Limits   == { Absent, Given(<< "1", "0" >>), Given(<< "2" >>), Given(<< "x" >>) }
Offsets  == { Absent, Given(<< "2", "0" >>), Given(<< "1" >>), Given(<< "-", "1" >>) }

InitListing ==
    /\ now = StartTime
    /\ rows \in ListingStores
    /\ rows0 = rows
    /\ commits = << >>
    /\ fileCalls = NoFileCalls
    /\ files = EmptyDir
    /\ checkedOut = 0
    /\ frames = [s \in Slots |-> IdleFrame]
    /\ started = 0
    /\ ticks = 0
    /\ art = IdleListing
    /\ boot = Listening
    /\ asked = 0

NextListing ==
    \/ \E search \in Searches, fromDate \in Dates, toDate \in Dates,
          limit \in Limits, offset \in Offsets :
            ArticlesStart(search, fromDate, toDate, limit, offset, MaxListings)
    \/ \E asc \in BOOLEAN, reachable \in BOOLEAN : PageQueryDone(asc, reachable)
    \/ \E reachable \in BOOLEAN : CountQueryDone(reachable)

SpecListing == InitListing /\ [][NextListing]_vars

\* The steps that complete an I/O request of the request in slot s.
Completion(s, pages) ==
    \/ CacheGateFail(s)
    \/ CacheMiss(s)
    \/ \E asc \in BOOLEAN : CacheHit(s, asc)
    \/ \E message \in FetchErrors : FetchFail(s, message)
    \/ \E markup \in pages, fail \in FileFailures(files) : FetchOk(s, markup, fail)
    \/ DbConnectFail(s)
    \/ DbConnectOk(s)
    \/ DbStatementFail(s)
    \/ DbBeginOk(s)
    \/ DbInsertOk(s)
    \/ DbCommitOk(s)
    \/ DbRollbackOk(s)
    \/ DbRollbackFail(s)
    \/ FallbackFail(s)
    \/ \E asc \in BOOLEAN : FallbackOk(s, asc)

\* Requests, possibly two at a time, every awaited query, fetch and client
\* checkout eventually resolving or rejecting.
LiveStores == { << 0, 0 >>, << 1, 0 >>, << 0, CacheThreshold >> }

InitLive ==
    /\ now = StartTime
    /\ \E st \in LiveStores : rows = Preload(st[1], st[2])
    /\ rows0 = rows
    /\ commits = << >>
    /\ fileCalls = NoFileCalls
    /\ files = EmptyDir
    /\ checkedOut = 0
    /\ frames = [s \in Slots |-> IdleFrame]
    /\ started = 0
    /\ ticks = 0
    /\ art = IdleListing
    /\ boot = Listening
    /\ asked = 0

NextLive == Pipeline(Pages, MaxScrapes)

SpecLive ==
    InitLive /\ [][NextLive]_vars /\ \A s \in Slots : WF_vars(Completion(s, Pages))

\* The same on pages that share an article, the clock advancing between the
\* steps.
RacePages == { << PostA, PostB >>, << PostB, PostC >> }

NextRace ==
    \/ Pipeline(RacePages, MaxScrapes)
    \/ Tick(1, MaxTicks)

SpecRace ==
    InitLive /\ [][NextRace]_vars /\ \A s \in Slots : WF_vars(Completion(s, RacePages))

\* The server from its start: initDB, then requests, possibly two at a time.
InitStart ==
    /\ now = StartTime
    /\ \E st \in LiveStores : rows = Preload(st[1], st[2])
    /\ rows0 = rows
    /\ commits = << >>
    /\ fileCalls = NoFileCalls
    /\ files = EmptyDir
    /\ checkedOut = 0
    /\ frames = [s \in Slots |-> IdleFrame]
    /\ started = 0
    /\ ticks = 0
    /\ art = IdleListing
    /\ boot = Booting
    /\ asked = 0

NextStart ==
    \/ InitDbConnectOk
    \/ InitDbConnectFail
    \/ InitDbCreateOk
    \/ InitDbCreateFail
    \/ Pipeline(Pages, MaxScrapes)

SpecStart == InitStart /\ [][NextStart]_vars

\* ------------------------------------------------------------------ claims
Done(s) == frames[s].pc = "done"

Has(res, key) == key \in res.fields

\* C2: a request that the store never answered and whose file write did not
\* fail is answered with storage.database = false, storage.file = true and
\* success = true.
C2_PartialPersistence ==
    \A s \in Slots :
        (Done(s) /\ ~frames[s].dbEverUp /\ frames[s].saveToFile # "false")
        => /\ frames[s].res.success
           /\ Has(frames[s].res, "storage")
           /\ frames[s].res.storage = [database |-> FALSE, file |-> TRUE]

\* C1: after saveToFile calls on consecutive days, one a day and each
\* returning true, the directory holds the snapshots of the 7 most recent
\* days (of all the days while there are fewer than 7) and no other.
C1_Rotation ==
    (fileCalls.n > 0 /\ fileCalls.daily)
    => DOMAIN files = {d \in fileCalls.first..fileCalls.last :
                          d > fileCalls.last - KeepFiles}

\* What C3 says of a request whose cache gate found n rows within the window.
GateOutcome(s) ==
    IF frames[s].gateCount >= CacheThreshold
    THEN /\ frames[s].fetches = 0
         /\ Done(s) => /\ Has(frames[s].res, "fromCache")
                       /\ frames[s].res.fromCache
    ELSE frames[s].fetches = 1

CreatedOf(a) == (CHOOSE r \in rows : r.link = a.link).created_at

\* C4: after a failed fetch and an answered fallback query, a store with rows
\* gives success = true, fromCache = true and the min(50, number of rows)
\* most recent rows, most recent first; an empty store gives success = false
\* and the message of the fetch error as error.
C4_Fallback ==
    \A s \in Slots :
        (Done(s) /\ frames[s].fetchError # Null /\ frames[s].res.status = 200)
        => LET res == frames[s].res
               shown == {res.articles[i].link : i \in 1..Len(res.articles)}
               stored == frames[s].rowsAtFallback
           IN  IF stored # {}
               THEN /\ res.success
                    /\ Has(res, "fromCache") /\ res.fromCache
                    /\ res.articles # << >>
                    /\ Len(res.articles) = Min(FallbackLimit, Cardinality(stored))
                    /\ res.count = Len(res.articles)
                    /\ \A i \in 1..Len(res.articles) :
                          \E r \in stored : Project(r) = res.articles[i]
                    /\ \A i, j \in 1..Len(res.articles) :
                          i < j => /\ res.articles[i].link # res.articles[j].link
                                   /\ CreatedOf(res.articles[i])
                                        >= CreatedOf(res.articles[j])
                    /\ \A r \in stored : \A i \in 1..Len(res.articles) :
                          r.link \notin shown => r.created_at <= CreatedOf(res.articles[i])
               ELSE /\ ~res.success
                    /\ Has(res, "error")
                    /\ res.error # Null
                    /\ res.error = frames[s].fetchError

C4_Witness ==
    \E s \in Slots :
        /\ Done(s)
        /\ frames[s].fetchError # Null
        /\ frames[s].res.status = 200
        /\ Cardinality(rows) > FallbackLimit
        /\ Len(frames[s].res.articles) = FallbackLimit

\* C5: every response whose body has success = false has HTTP status 500.
C5_FailureIs500 ==
    \A s \in Slots :
        (Done(s) /\ ~frames[s].res.success) => frames[s].res.status = 500

\* text contains sub, without regard to case
Contains(text, sub) ==
    \E i \in 1..(Len(text) - Len(sub) + 1) :
        \A k \in 1..Len(sub) : Lower(text[i + k - 1]) = Lower(sub[k])

\* The request names a limit and an offset that are numbers >= 0 (or leaves
\* them out) and dates that are dates, and the store answered both queries.
Served(a) ==
    /\ a.pc = "done"
    /\ ~a.lost
    /\ ~ParseInt(a.limit, DefaultLimit).nan /\ ParseInt(a.limit, DefaultLimit).val >= 0
    /\ ~ParseInt(a.offset, DefaultOffset).nan /\ ParseInt(a.offset, DefaultOffset).val >= 0
    /\ Truthy(a.fromDate) => ParseDate(a.fromDate.text).valid
    /\ Truthy(a.toDate) => ParseDate(a.toDate.text).valid

\* The rows that satisfy every filter the request names
Filtered(a) ==
    {r \in rows :
        /\ Truthy(a.search) =>
              Contains(r.title, a.search.text) \/ Contains(r.summary, a.search.text)
        /\ Truthy(a.fromDate) => r.created_at >= ParseDate(a.fromDate.text).t
        /\ Truthy(a.toDate) => r.created_at <= ParseDate(a.toDate.text).t}

\* C8: a request with filters F, limit L and offset O against a store with M
\* rows matching F is answered with success, total = M and
\* count = min(L, max(0, M - O)).
C8_Pagination ==
    Served(art)
    => LET M == Cardinality(Filtered(art))
           L == ParseInt(art.limit, DefaultLimit).val
           O == ParseInt(art.offset, DefaultOffset).val
       IN  /\ art.res.status = 200
           /\ art.res.success
           /\ art.res.total = M
           /\ art.res.count = Min(L, Max(0, M - O))

\* C9: the rows the page query finds are the rows that satisfy every filter
\* the request names, most recently created first, and they are the articles
\* of the response.
C9_Filters ==
    /\ (art.pageState = "ok" /\ art.params[art.query.offsetParam].val = 0
            /\ art.params[art.query.limitParam].val >= Cardinality(rows))
       => /\ {ProjectDated(r) : r \in Filtered(art)}
                = {art.result.rows[i] : i \in 1..Len(art.result.rows)}
          /\ Len(art.result.rows) = Cardinality(Filtered(art))
          /\ \A i, j \in 1..Len(art.result.rows) :
                i < j => art.result.rows[i].created_at >= art.result.rows[j].created_at
    /\ Served(art)
       => /\ art.res.status = 200
          /\ art.res.articles = art.result.rows

\* index of the first candidate with the link
FirstOf(a, link) ==
    CHOOSE k \in 1..Len(a) : a[k].link = link /\ \A j \in 1..(k - 1) : a[j].link # link

\* C7: the batch handed to saveToDB and saveToFile holds every link of the
\* candidates once, each entry is the first candidate with its link, and the
\* entries are in the order of those first candidates.
C7_Dedup ==
    \A s \in Slots :
        frames[s].saveToDB # "none"
        => LET a == frames[s].articles
               u == frames[s].uniqueArticles
           IN  /\ \A i, j \in 1..Len(u) : i # j => u[i].link # u[j].link
               /\ \A k \in 1..Len(a) : \E i \in 1..Len(u) : u[i].link = a[k].link
               /\ \A i \in 1..Len(u) :
                     /\ \E k \in 1..Len(a) : a[k].link = u[i].link
                     /\ u[i] = a[FirstOf(a, u[i].link)]
               /\ \A i, j \in 1..Len(u) :
                     i < j => FirstOf(a, u[i].link) < FirstOf(a, u[j].link)

\* candidates naming one link under two titles, another link between or after
C7_Witness ==
    \E s \in Slots :
        /\ frames[s].saveToDB # "none"
        /\ Len(frames[s].uniqueArticles) = 2
        /\ \E i, j \in 1..Len(frames[s].articles) :
              /\ i < j
              /\ frames[s].articles[i].link = frames[s].articles[j].link
              /\ frames[s].articles[i].title # frames[s].articles[j].title

\* The links of the committed batches, and for a link the commits holding it.
CommittedLinks ==
    UNION {{commits[i].batch[j].link : j \in 1..Len(commits[i].batch)} :
             i \in 1..Len(commits)}

CommitsOf(link) ==
    {i \in 1..Len(commits) :
        \E j \in 1..Len(commits[i].batch) : commits[i].batch[j].link = link}

ArticleOf(i, link) ==
    commits[i].batch[CHOOSE j \in 1..Len(commits[i].batch) :
                        commits[i].batch[j].link = link]

\* C6: after any sequence of committed upserts the store holds one row per
\* link; the row of an upserted link has the title and summary of the last
\* commit holding the link and the created_at of its first insertion, and
\* only updated_at follows the later commits.
C6_Upsert ==
    /\ \A r, q \in rows : r.link = q.link => r = q
    /\ \A r \in rows : r.link \notin CommittedLinks => r \in rows0
    /\ \A link \in CommittedLinks :
          LET is    == CommitsOf(link)
              last  == CHOOSE i \in is : \A k \in is : k <= i
              first == CHOOSE i \in is : \A k \in is : i <= k
              a     == ArticleOf(last, link)
          IN  \E r \in rows :
                /\ r.link = link
                /\ r.title = a.title
                /\ r.summary = a.summary
                /\ r.updated_at = commits[last].time
                /\ r.created_at =
                     IF \E r0 \in rows0 : r0.link = link
                     THEN (CHOOSE r0 \in rows0 : r0.link = link).created_at
                     ELSE commits[first].time

\* a link committed twice, at different times and under different titles
C6_Witness ==
    \E link \in CommittedLinks :
        /\ Len(commits) = 2
        /\ CommitsOf(link) = {1, 2}
        /\ ArticleOf(1, link).title # ArticleOf(2, link).title
        /\ commits[1].time < commits[2].time
        /\ \A r0 \in rows0 : r0.link # link

\* Rows S after the commits numbered i and later.
RECURSIVE Replay(_, _)
Replay(S, i) ==
    IF i > Len(commits) THEN S
    ELSE Replay(Upsert(S, InsertValues(commits[i].batch), commits[i].time), i + 1)

\* C10: when a saveToDB call returned false or threw, the rows are those of
\* the moment it was called, changed only by what other calls committed
\* since: the failed call inserted no row and updated none.
C10_Atomic ==
    \A s \in Slots :
        frames[s].saveToDB \in {"false", "threw"}
        => rows = Replay(frames[s].rowsAtSave, frames[s].commitsAtSave + 1)

\* a saveToDB call that failed with a batch holding a link the store lacks
\* and a link whose stored title differs
C10_Witness ==
    \E s \in Slots :
        /\ frames[s].saveToDB \in {"false", "threw"}
        /\ \E i \in 1..Len(frames[s].uniqueArticles) :
              \A r \in rows : r.link # frames[s].uniqueArticles[i].link
        /\ \E i \in 1..Len(frames[s].uniqueArticles) :
              \E r \in rows : /\ r.link = frames[s].uniqueArticles[i].link
                              /\ r.title # frames[s].uniqueArticles[i].title

\* Request s did e; the positions of e in what it did.
At(s, e) == {i \in 1..Len(frames[s].events) : frames[s].events[i] = e}

Did(s, e) == At(s, e) # {}

\* The saveToDB call of request s committed its batch.
Committed(s) ==
    \E i \in (frames[s].commitsAtSave + 1)..Len(commits) :
        commits[i].slot = s /\ commits[i].batch = frames[s].uniqueArticles

\* C11: when saveToFile returned false, saveToDB was called all the same, and
\* unless a store call of it failed the batch is committed and the response
\* reports storage.file = false, storage.database = true and success = true.
C11_FileFailure ==
    \A s \in Slots :
        frames[s].saveToFile = "false"
        => /\ Did(s, "dbStart")
           /\ frames[s].saveToDB \in {"running", "true"}
              => /\ Done(s) <=> frames[s].saveToDB = "true"
                 /\ Done(s)
                    => /\ frames[s].res.status = 200
                       /\ frames[s].res.success
                       /\ Has(frames[s].res, "storage")
                       /\ frames[s].res.storage = [database |-> TRUE, file |-> FALSE]
                       /\ frames[s].res.articles = frames[s].uniqueArticles
                       /\ frames[s].uniqueArticles # << >> => Committed(s)

\* a failed snapshot write next to a committed batch that is in the store
C11_Witness ==
    \E s \in Slots :
        /\ Done(s)
        /\ frames[s].saveToFile = "false"
        /\ frames[s].saveToDB = "true"
        /\ frames[s].uniqueArticles # << >>
        /\ Committed(s)
        /\ \A i \in 1..Len(frames[s].uniqueArticles) :
              \E r \in rows : /\ r.link = frames[s].uniqueArticles[i].link
                              /\ r.title = frames[s].uniqueArticles[i].title

\* Whenever request s did b, it had done a before.
Before(s, a, b) == \A j \in At(s, b) : \E i \in At(s, a) : i < j

\* The response of request s is the one of lines 242-253.
Fresh(s) == Done(s) /\ Has(frames[s].res, "storage")

\* C12: in every request the cache gate query completes before the fetch
\* starts, the fetch completes before the extraction, the extraction and the
\* deduplication complete before saveToDB and saveToFile start, and the
\* response of a fresh scrape is sent after both have finished.
C12_Order ==
    \A s \in Slots :
        /\ Before(s, "gateQuery", "gateDone")
        /\ Before(s, "gateDone", "fetchStart")
        /\ Before(s, "fetchStart", "fetchDone")
        /\ Before(s, "fetchDone", "extract")
        /\ Before(s, "extract", "dedup")
        /\ Before(s, "dedup", "dbStart")
        /\ Before(s, "dedup", "fileStart")
        /\ Before(s, "dbStart", "dbDone")
        /\ Before(s, "fileStart", "fileDone")
        /\ frames[s].fetches > 0 => frames[s].gate = "ok"
        /\ (frames[s].saveToDB # "none" \/ frames[s].saveToFile # "none")
           => Did(s, "dedup")
        /\ Fresh(s)
           => /\ Before(s, "dbDone", "response")
              /\ Before(s, "fileDone", "response")
              /\ frames[s].saveToDB \in {"true", "false"}
              /\ frames[s].saveToFile \in {"true", "false"}
              /\ ~frames[s].txOpen

\* a fresh scrape that went through every stage with a batch to persist
C12_Witness ==
    \E s \in Slots :
        /\ Fresh(s)
        /\ frames[s].uniqueArticles # << >>
        /\ frames[s].events =
              << "gateQuery", "gateDone", "fetchStart", "fetchDone", "extract",
                 "dedup", "dbStart", "fileStart", "fileDone", "acquire",
                 "release", "dbDone", "response" >>

\* C13: with every awaited operation eventually resolving or rejecting, a
\* request that was received eventually has sent its response; it never sends
\* two, it has sent one exactly when its handler is through, and it calls
\* axios.get at most once.
C13_OneResponse ==
    /\ [](\A s \in Slots :
            /\ frames[s].responses <= 1
            /\ frames[s].fetches <= 1
            /\ Done(s) <=> frames[s].responses = 1
            /\ Done(s) => frames[s].res.status \in {200, 500}
            /\ At(s, "response") = (IF Done(s) THEN {Len(frames[s].events)} ELSE {}))
    /\ \A s \in Slots : InFlight(s) ~> Done(s)

\* two requests answered, one of them after its fetch had resolved and its
\* saveToDB call and the fallback query had failed
C13_Witness ==
    /\ \A s \in Slots : Done(s) /\ frames[s].responses = 1
    /\ \E s \in Slots : /\ frames[s].fetches = 1
                         /\ frames[s].saveToDB = "threw"
                         /\ frames[s].res.status = 500

\* The saveToDB calls that hold a client: between the resolution of
\* pool.connect() and the finally of line 128.
Holding == {s \in Slots : frames[s].pc \in {"begin", "insert", "commit", "rollback"}}

\* C14: a client taken from the pool by saveToDB or by initDB is released
\* once, before the function finishes, whichever way it finishes; the clients
\* checked out are those of the calls still running, and none when the
\* requests are through.
C14_Released ==
    /\ checkedOut = Cardinality(Holding) + (IF boot.pc = "create" THEN 1 ELSE 0)
    /\ boot.released <= boot.acquired /\ boot.acquired <= 1
    /\ boot.pc \in {"listening", "exited"} => boot.released = boot.acquired
    /\ \A s \in Slots :
          /\ Cardinality(At(s, "acquire")) <= 1
          /\ Cardinality(At(s, "release")) <= Cardinality(At(s, "acquire"))
          /\ Before(s, "acquire", "release")
          /\ frames[s].saveToDB \in {"true", "false", "threw"}
             => Cardinality(At(s, "release")) = Cardinality(At(s, "acquire"))
          /\ s \in Holding <=> (Did(s, "acquire") /\ ~Did(s, "release"))
    /\ (boot.pc \in {"listening", "exited"} /\ \A s \in Slots : ~InFlight(s))
       => checkedOut = 0

\* after initDB, a saveToDB call that committed and one whose ROLLBACK failed,
\* each having released the client it had taken
C14_Witness ==
    /\ boot = Listening
    /\ checkedOut = 0
    /\ \E s, q \in Slots :
          /\ Done(s) /\ Done(q)
          /\ frames[s].saveToDB = "true" /\ Did(s, "release")
          /\ frames[q].saveToDB = "threw" /\ Did(q, "release")

\* C15: a fresh scrape whose batch is empty and whose saveToFile call returned
\* true reports both sub-operations as successful and leaves the rows and the
\* snapshot files, their set and their contents, as they were at the call.
C15_EmptyNoOp ==
    \A s \in Slots :
        (Fresh(s) /\ frames[s].uniqueArticles = << >> /\ frames[s].saveToFile = "true")
        => /\ frames[s].res.storage = [database |-> TRUE, file |-> TRUE]
           /\ rows = frames[s].rowsAtSave
           /\ files = frames[s].filesAtSave

\* The response of request s is the fallback body of lines 263-273 or the
\* 500 body of lines 276-281.
FellBack(s) == Done(s) /\ Has(frames[s].res, "message")

\* C16: a request answers with the fallback body only if its fetch raised an
\* error; a request whose cache gate query, fetch and extraction succeeded
\* never does; and a request that answers with the fallback body or with 500
\* has written no snapshot file and no row.
C16_FallbackOnlyOnFetchError ==
    \A s \in Slots :
        FellBack(s)
        => /\ frames[s].res.status = 200 => frames[s].fetchError # Null
           /\ ~(frames[s].gate = "ok" /\ Did(s, "dedup"))
           /\ frames[s].saveToFile # "true"
           /\ ~Committed(s)

\* C16, the case found: the batch was extracted and its snapshot written,
\* then pool.connect() or ROLLBACK rejected and the fallback body was sent.
C16_SnapshotThenFallback ==
    \E s \in Slots :
        /\ FellBack(s)
        /\ frames[s].res.status = 200
        /\ frames[s].fetchError = Null
        /\ frames[s].gate = "ok"
        /\ frames[s].saveToFile = "true"
        /\ frames[s].saveToDB = "threw"
        /\ frames[s].uniqueArticles # << >>
        /\ DayOf(now) \in DOMAIN files

\* The commit of the saveToDB call of request s.
CommitOf(s) ==
    CHOOSE i \in (frames[s].commitsAtSave + 1)..Len(commits) :
        commits[i].slot = s /\ commits[i].batch = frames[s].uniqueArticles

LinksOf(batch) == {batch[j].link : j \in 1..Len(batch)}

\* Requests s and q both committed, the transaction of one open while the
\* other committed, and their batches share a link.
Raced(s, q) ==
    /\ s # q
    /\ Done(s) /\ Done(q)
    /\ Committed(s) /\ Committed(q)
    /\ CommitOf(s) < CommitOf(q)
    /\ q \in commits[CommitOf(s)].open
    /\ LinksOf(frames[s].uniqueArticles) \cap LinksOf(frames[q].uniqueArticles) # {}

\* C17: two requests whose upsert transactions overlap and whose batches
\* share links both come to their end; when both have committed, each shared
\* link has one row, with the title and summary of the later commit and the
\* created_at of the first insertion, and each request has its own one
\* response with its own batch.
C17_Concurrent ==
    /\ [](\A s, q \in Slots :
            Raced(s, q)
            => /\ \A link \in LinksOf(frames[s].uniqueArticles)
                                \cap LinksOf(frames[q].uniqueArticles) :
                     LET is   == CommitsOf(link)
                         last == CHOOSE i \in is : \A k \in is : k <= i
                         a    == ArticleOf(last, link)
                         held == {r \in rows : r.link = link}
                     IN  /\ Cardinality(held) = 1
                         /\ \A r \in held :
                               /\ r.title = a.title
                               /\ r.summary = a.summary
                               /\ r.updated_at = commits[last].time
                               /\ r.created_at =
                                     IF \E r0 \in rows0 : r0.link = link
                                     THEN (CHOOSE r0 \in rows0 : r0.link = link).created_at
                                     ELSE commits[CHOOSE i \in is : \A k \in is : i <= k].time
               /\ \A x \in {s, q} :
                     /\ frames[x].responses = 1
                     /\ Fresh(x)
                     /\ frames[x].res.articles = frames[x].uniqueArticles
                     /\ frames[x].res.storage.database)
    /\ (\A s \in Slots : frames[s].txOpen) ~> (\A s \in Slots : Done(s))

\* two transactions that overlapped, began at different times and committed
\* a shared new link, and a shared link under different titles
C17_Witness ==
    \E s, q \in Slots :
        /\ Raced(s, q)
        /\ commits[CommitOf(s)].time # commits[CommitOf(q)].time
        /\ \E link \in LinksOf(frames[s].uniqueArticles)
                          \cap LinksOf(frames[q].uniqueArticles) :
              \A r0 \in rows0 : r0.link # link
        /\ \E i \in 1..Len(frames[s].uniqueArticles),
                j \in 1..Len(frames[q].uniqueArticles) :
              /\ frames[s].uniqueArticles[i].link = frames[q].uniqueArticles[j].link
              /\ frames[s].uniqueArticles[i].title # frames[q].uniqueArticles[j].title

\* C18: the directory holds at most one snapshot per day, and on the day of
\* the last saveToFile call that returned true the file of the day holds the
\* batch of that call, whole and once.
C18_SnapshotOfDay ==
    (fileCalls.saved /\ fileCalls.savedDay = DayOf(now))
    => /\ DayOf(now) \in DOMAIN files
       /\ files[DayOf(now)] = Whole(fileCalls.savedData)

\* C18, the case found: a second scrape of the day whose write failed after
\* the file was opened, the batch of the first scrape gone from the file.
C18_SnapshotLost ==
    /\ fileCalls.n = 2
    /\ fileCalls.saved /\ fileCalls.savedDay = DayOf(now)
    /\ fileCalls.savedData # << >>
    /\ DayOf(now) \in DOMAIN files
    /\ files[DayOf(now)] = Truncated
    /\ \E s \in Slots : Fresh(s) /\ ~frames[s].res.storage.file

\* C19: no row of the store and no record of a snapshot file has an empty
\* title or an empty link.
C19_NoEmpty ==
    /\ \A r \in rows : r.title # << >> /\ r.link # EmptyLink
    /\ \A d \in DOMAIN files :
          \A i \in 1..Len(files[d].records) :
              /\ files[d].records[i].title # << >>
              /\ files[d].records[i].link # EmptyLink

\* a page with a node of blank title and a node without href, next to a node
\* that was extracted, committed and written to the snapshot of the day
C19_Witness ==
    \E s \in Slots :
        /\ Fresh(s)
        /\ \E n \in 1..Len(frames[s].markup) : Trim(frames[s].markup[n].postLink) = << >>
        /\ \E n \in 1..Len(frames[s].markup) : frames[s].markup[n].href = EmptyLink
        /\ frames[s].uniqueArticles # << >>
        /\ Committed(s)
        /\ frames[s].saveToFile = "true"
        /\ files[DayOf(now)] = Whole(frames[s].uniqueArticles)
        /\ \E r \in rows : r.link = frames[s].uniqueArticles[1].link

\* Every link of batch has a row in S created more than 5 minutes before t.
AllOld(S, batch, t) ==
    \A link \in LinksOf(batch) :
        \E r \in S : r.link = link /\ r.created_at < t - CacheWindow

\* C20: the commit of a batch whose links were all first inserted more than 5
\* minutes earlier leaves the rows the cache gate counts, and so its verdict,
\* as they were: the cache gate goes by created_at, which the upsert of a
\* stored link does not change.
C20_GateByCreatedAt ==
    [][\A s \in Slots :
          (/\ frames[s].pc = "commit"
           /\ frames'[s].saveToDB = "true"
           /\ AllOld(rows, frames[s].uniqueArticles, now))
          => /\ Recent(rows', now') = Recent(rows, now)
             /\ \A asc \in BOOLEAN :
                   CacheQuery(rows', now', asc) = CacheQuery(rows, now, asc)
             /\ CacheValid(CacheQuery(rows', now', TRUE))
                   = CacheValid(CacheQuery(rows, now, TRUE))]_vars

\* after the commit of a batch of links all stored long before, under a title
\* the store did not have, the next request has missed the cache and fetched
C20_Witness ==
    \E s \in Slots :
        /\ Len(commits) = 1
        /\ commits[1].batch # << >>
        /\ AllOld(rows0, commits[1].batch, commits[1].time)
        /\ \E r \in rows : r.updated_at = commits[1].time /\ r.created_at < r.updated_at
        /\ frames[s].commitsAtGate = 1
        /\ frames[s].gate = "ok"
        /\ frames[s].gateCount = Cardinality(Recent(rows0, commits[1].time))
        /\ frames[s].gateCount < CacheThreshold
        /\ frames[s].fetches = 1

====
